---- MODULE Spec2Model ----
(***************************************************************************)
(* Adapter lifecycle and self-healing injection of the browser extension.  *)
(*                                                                         *)
(* The GeminiAdapter instance (src/servers/notion-github-bridge.js, from   *)
(* line 257) is modelled field by field, together with the host document   *)
(* it injects into and the timers and observers it registers on the event  *)
(* loop.  BaseAdapterPlugin and the plugin registry are part of the        *)
(* repository but not of the available sources; their lifecycle is         *)
(* modelled from the specification (sections 4.2 and 4.3).                 *)
(***************************************************************************)
EXTENDS Integers, Sequences, FiniteSets, TLC

\* ------------------------------------------------------------------------
\* Bounds of the model
\* ------------------------------------------------------------------------
MaxPending == 2     \* pending timeouts (page-ready polls, retries, page-change timeouts)
MaxListeners == 2   \* handlers subscribed to 'tool:execution-completed'
MaxContinuations == 2  \* suspended click handlers and imports of the control surface
MaxLocatorFails == 6   \* failures a locator can be set up with
MaxTime == 3000     \* Date.now() runs from 0 to MaxTime (ms)
TickMs == 1000      \* the clock advances in steps of TickMs

\* ------------------------------------------------------------------------
\* Program constants
\* ------------------------------------------------------------------------
DefaultMaxRetries == 5  \* injectMCPPopoverWithRetry(maxRetries = 5)
HealMaxRetries == 3     \* injectMCPPopoverWithRetry(3) of the periodic check
Cooldown == 2000        \* now - attachmentRef.current.timestamp < 2000

Gemini == "GeminiAdapter"
Other == "OtherAdapter"
Plugins == {Gemini, Other}
NoPlugin == "none"

Status == {"uninitialized", "initializing", "idle", "active", "inactive", "disabled"}

GeminiHost == "gemini.google.com"
OtherHost == "other.example"
UnknownHost == "unknown.example"
Hosts == {GeminiHost, OtherHost, UnknownHost}

\* Pages of the Gemini host: one that matches supportedPatterns, one that does not.
AppUrl == "https://gemini.google.com/app/1"
HomeUrl == "https://gemini.google.com/"
Urls == {AppUrl, HomeUrl}

RetryBounds == {HealMaxRetries, DefaultMaxRetries}

\* A pending retry timeout is attemptInjection(attempt) of a run with maxRetries.
RetryKeys ==
  {k \in (2..DefaultMaxRetries) \X {HealMaxRetries, DefaultMaxRetries} : k[1] <= k[2]}

\* useAvailableTools().tools: no tool, or one of two different tool lists.
NoTools == "[]"
ToolLists == {NoTools, "[search]", "[search, fetch]"}

\* attachmentRef.current: null, or { timestamp, context }.
NullRef == [set |-> FALSE, timestamp |-> 0, context |-> <<"", NoTools>>]

\* What a suspended handler or effect captured from its render.
Closures ==
  {c \in [kind : {"effect", "click-enable", "click-disable"}, tools : ToolLists] :
     /\ c.kind = "effect" => c.tools # NoTools
     /\ c.kind = "click-disable" => c.tools = NoTools}

VARIABLES
  currentStatus,            \* BaseAdapterPlugin.currentStatus of each instance
  activePlugin,             \* the registry's active instance, or NoPlugin
  context,                  \* this.context of the Gemini instance is set
  initInFlight,             \* an initialize() of the Gemini instance awaits super.initialize
  lastUrl,
  urlCheckInterval,         \* the fields hold a handle (TRUE) or null (FALSE)
  popoverCheckInterval,
  mutationObserver,
  storeEventListenersSetup,
  domObserversSetup,
  uiIntegrationSetup,
  urlTimers,                \* live setInterval timers created by setupUrlTracking
  popoverTimers,            \* live setInterval timers created by setupPeriodicPopoverCheck
  observers,                \* connected MutationObservers created by setupDOMObservers
  listeners,                \* handlers on 'tool:execution-completed' of the instance
  readyPolls,               \* pending checkReady timeouts of waitForPageReady
  retryTimeouts,            \* pending attemptInjection timeouts, by <<attempt, maxRetries>>
  pageSetupTimers,          \* pending 1000 ms timeouts of onPageChanged
  pageRestoreTimers,        \* pending 1500 ms timeouts of onPageChanged
  popovers,                 \* elements with id 'mcp-popover-container' in the document
  anchor,                   \* the document has an insertion point
  location,                 \* window.location.href
  events,                   \* events the last step emitted on the event bus
  call,                     \* the operation of the last step, whether it threw, what it returned
  \* MCPPopover, one mounted instance of the component
  mcpEnabledFromStore,      \* useMCPState().mcpEnabled
  stateMcpEnabled,          \* state.mcpEnabled of the component
  tools,                    \* useAvailableTools().tools
  attachmentRef,            \* attachmentRef.current
  continuations,            \* suspended click handlers and pending imports, by closure
  now,                      \* Date.now()
  lastAttach,               \* the last attachFile(file) call: its time and content
  trackingReset,            \* attachmentRef was reset to null since that call
  pcall,                    \* what the last step of the component did
  \* A locator that fails a given number of times, and what each injection
  \* run (named by its retry bound) did with it
  locatorFails,             \* failures the locator has left before it finds the anchor
  failedLocates,            \* failed locate attempts of the current run, by retry bound
  failuresEmitted,          \* injection failures the current run reported, by retry bound
  observerRun,              \* the run the MutationObserver started: its failed locate attempts
  \* The content script (src/pages/content/src/index.ts) of one page load
  script,                   \* the top-level block that runs next
  architecture,             \* where initializeNewArchitecture() stands
  startup,                  \* the startup calls made so far, in order
  mounted,                  \* the MCPPopover is mounted, its toggle state manager exists
  enabledBy,                \* sources of the setMCPEnabled(true, source) calls of this page load
  \* The automation of completed tool executions
  automation,               \* preferences, declared capabilities, recorded fingerprint, operations invoked
  \* The event bus, for one event name
  bus,                      \* subscribed handlers in order, and what the last call on the bus did
  \* Disabling MCP
  toggle,                   \* per-tool enablement, pending 100 ms auto-detach timeouts,
                            \* preferences.autoSubmit, the last setter call
  surface,                  \* the last runtime message, its response, pending tool calls
  dropzone,                 \* the file cards of the context file and the drops on their way
  renderer,                 \* the run of initRendererWithRetry: flag, calls, pending timeouts
  history                   \* the history panels of each function block

avars == <<currentStatus, activePlugin, context, initInFlight, lastUrl,
           urlCheckInterval, popoverCheckInterval, mutationObserver,
           storeEventListenersSetup, domObserversSetup, uiIntegrationSetup,
           urlTimers, popoverTimers, observers, listeners, readyPolls,
           retryTimeouts, pageSetupTimers, pageRestoreTimers, popovers, anchor,
           location, events, call>>

pvars == <<mcpEnabledFromStore, stateMcpEnabled, tools,
           attachmentRef, continuations, now, lastAttach, trackingReset, pcall>>

mvars == <<locatorFails, failedLocates, failuresEmitted, observerRun>>

svars == <<script, architecture, startup, mounted, enabledBy>>

ovars == <<automation, bus, toggle>>

cvars == <<surface, dropzone>>

rvars == <<renderer, history>>

vars == <<avars, pvars, mvars, svars, ovars, cvars, rvars>>

\* The whole state as one record, so that a handler is a function on it.
World ==
  [currentStatus |-> currentStatus, activePlugin |-> activePlugin,
   context |-> context, initInFlight |-> initInFlight, lastUrl |-> lastUrl,
   urlCheckInterval |-> urlCheckInterval,
   popoverCheckInterval |-> popoverCheckInterval,
   mutationObserver |-> mutationObserver,
   storeEventListenersSetup |-> storeEventListenersSetup,
   domObserversSetup |-> domObserversSetup,
   uiIntegrationSetup |-> uiIntegrationSetup,
   urlTimers |-> urlTimers, popoverTimers |-> popoverTimers,
   observers |-> observers, listeners |-> listeners, readyPolls |-> readyPolls,
   retryTimeouts |-> retryTimeouts, pageSetupTimers |-> pageSetupTimers,
   pageRestoreTimers |-> pageRestoreTimers, popovers |-> popovers,
   anchor |-> anchor, location |-> location, events |-> events, call |-> call]

CommitAdapter(w) ==
  /\ currentStatus' = w.currentStatus
  /\ activePlugin' = w.activePlugin
  /\ context' = w.context
  /\ initInFlight' = w.initInFlight
  /\ lastUrl' = w.lastUrl
  /\ urlCheckInterval' = w.urlCheckInterval
  /\ popoverCheckInterval' = w.popoverCheckInterval
  /\ mutationObserver' = w.mutationObserver
  /\ storeEventListenersSetup' = w.storeEventListenersSetup
  /\ domObserversSetup' = w.domObserversSetup
  /\ uiIntegrationSetup' = w.uiIntegrationSetup
  /\ urlTimers' = w.urlTimers
  /\ popoverTimers' = w.popoverTimers
  /\ observers' = w.observers
  /\ listeners' = w.listeners
  /\ readyPolls' = w.readyPolls
  /\ retryTimeouts' = w.retryTimeouts
  /\ pageSetupTimers' = w.pageSetupTimers
  /\ pageRestoreTimers' = w.pageRestoreTimers
  /\ popovers' = w.popovers
  /\ anchor' = w.anchor
  /\ location' = w.location
  /\ events' = w.events
  /\ call' = w.call

Commit(w) == CommitAdapter(w) /\ UNCHANGED <<pvars, mvars, rvars, cvars, ovars, svars>>

\* The state a step starts from: nothing emitted yet, nothing thrown yet.
Begin(op) ==
  [World EXCEPT !.events = <<>>,
                !.call = [op |-> op, threw |-> FALSE, returned |-> FALSE]]

RECURSIVE SumOver(_, _)
SumOver(f, S) ==
  IF S = {} THEN 0
  ELSE LET k == CHOOSE x \in S : TRUE IN f[k] + SumOver(f, S \ {k})

PendingRetries(w) == SumOver(w.retryTimeouts, RetryKeys)

\* The counters that the code lets grow without limit stay within the bounds.
Fits(w) ==
  /\ w.readyPolls + PendingRetries(w) + w.pageSetupTimers + w.pageRestoreTimers <= MaxPending
  /\ w.listeners <= MaxListeners

Emit(w, e) == [w EXCEPT !.events = Append(@, e)]

\* A TypeError from dereferencing an undefined this.context: the method rejects.
Throw(w) == [w EXCEPT !.call.threw = TRUE]

\* ------------------------------------------------------------------------
\* BaseAdapterPlugin and the registry's bookkeeping (specification 4.2, 4.3)
\* ------------------------------------------------------------------------

\* super.initialize(context), up to its suspension: only from UNINITIALIZED;
\* it stores the context and moves to INITIALIZING.
BaseInitializeBegin(w, p) ==
  IF w.currentStatus[p] = "uninitialized"
  THEN [w EXCEPT !.currentStatus[p] = "initializing",
                 !.context = IF p = Gemini THEN TRUE ELSE @]
  ELSE w

\* super.initialize(context), after its suspension: INITIALIZING moves to IDLE.
BaseInitializeEnd(w, p) ==
  IF w.currentStatus[p] = "initializing"
  THEN [w EXCEPT !.currentStatus[p] = "idle"]
  ELSE w

\* super.deactivate(): only from ACTIVE, moves to INACTIVE; the registry then
\* has no active instance.
BaseDeactivate(w, p) ==
  IF w.currentStatus[p] = "active"
  THEN [w EXCEPT !.currentStatus[p] = "inactive",
                 !.activePlugin = IF @ = p THEN NoPlugin ELSE @]
  ELSE w

\* super.cleanup(): from any state, moves to DISABLED.
BaseCleanup(w, p) ==
  [w EXCEPT !.currentStatus[p] = "disabled",
            !.activePlugin = IF @ = p THEN NoPlugin ELSE @]

\* ------------------------------------------------------------------------
\* GeminiAdapter: the private helpers
\* ------------------------------------------------------------------------

\* Variant of setupUrlTracking that does not look at urlCheckInterval.
setupUrlTrackingUnguarded(w) ==
  [w EXCEPT !.urlCheckInterval = TRUE, !.urlTimers = @ + 1]

setupUrlTracking(w) ==
  IF ~w.urlCheckInterval
  THEN [w EXCEPT !.urlCheckInterval = TRUE, !.urlTimers = @ + 1]
  ELSE w

setupStoreEventListeners(w) ==
  IF w.storeEventListenersSetup
  THEN w
  ELSE [w EXCEPT !.listeners = @ + 1, !.storeEventListenersSetup = TRUE]

setupDOMObservers(w) ==
  IF w.domObserversSetup
  THEN w
  ELSE [w EXCEPT !.mutationObserver = TRUE, !.observers = @ + 1,
                 !.domObserversSetup = TRUE]

\* Variant of setupPeriodicPopoverCheck that starts no interval.
setupPeriodicPopoverCheckNever(w) == w

setupPeriodicPopoverCheck(w) ==
  IF ~w.popoverCheckInterval
  THEN [w EXCEPT !.popoverCheckInterval = TRUE, !.popoverTimers = @ + 1]
  ELSE w

\* waitForPageReady(): the promise is pending on one checkReady timeout.
waitForPageReady(w) == [w EXCEPT !.readyPolls = @ + 1]

setupUIIntegration(w) ==
  setupPeriodicPopoverCheck(waitForPageReady([w EXCEPT !.uiIntegrationSetup = TRUE]))

cleanupDOMObservers(w) ==
  IF w.mutationObserver
  THEN [w EXCEPT !.observers = @ - 1, !.mutationObserver = FALSE]
  ELSE w

cleanupUIIntegration(w) ==
  IF w.popovers > 0 THEN [w EXCEPT !.popovers = @ - 1] ELSE w

\* document.getElementById('mcp-popover-container') finds an element.
isMCPPopoverInjected(w) == w.popovers > 0

\* findButtonInsertionPoint() returns an insertion point.
findButtonInsertionPoint(w) == w.anchor

\* Variant of injectMCPPopover that inserts without looking for the element.
injectMCPPopoverUnchecked(w) == [w EXCEPT !.popovers = @ + 1]

injectMCPPopover(w) ==
  IF isMCPPopoverInjected(w) THEN w ELSE [w EXCEPT !.popovers = @ + 1]

\* Variant of attemptInjection that inserts without the presence checks.
attemptInjectionUnchecked(w, attempt, maxRetries) ==
  IF findButtonInsertionPoint(w) THEN [w EXCEPT !.popovers = @ + 1]
  ELSE IF attempt < maxRetries
       THEN [w EXCEPT !.retryTimeouts[<<attempt + 1, maxRetries>>] = @ + 1]
       ELSE Emit(w, "injection-failed")

attemptInjection(w, attempt, maxRetries) ==
  IF isMCPPopoverInjected(w) THEN w
  ELSE IF findButtonInsertionPoint(w) THEN injectMCPPopover(w)
  ELSE IF attempt < maxRetries
       THEN [w EXCEPT !.retryTimeouts[<<attempt + 1, maxRetries>>] = @ + 1]
       ELSE Emit(w, "injection-failed")

injectMCPPopoverWithRetry(w, maxRetries) == attemptInjection(w, 1, maxRetries)

\* Variant of the observer callback that ignores the records.
observerCallbackIgnores(w) == w

\* The MutationObserver callback of setupDOMObservers, for a childList record.
observerCallback(w) ==
  IF ~isMCPPopoverInjected(w) THEN setupUIIntegration(w) ELSE w

\* Every connected observer is told of a change of the host document.
RECURSIVE NotifyObservers(_, _)
NotifyObservers(w, n) ==
  IF n = 0 THEN w ELSE NotifyObservers(observerCallback(w), n - 1)

SupportedUrls == {AppUrl}

isSupported(w) == w.location \in SupportedUrls

\* ------------------------------------------------------------------------
\* GeminiAdapter: the lifecycle methods
\* ------------------------------------------------------------------------

\* initialize(), the statements after `await super.initialize(context)`.
initializeRest(w) ==
  IF ~w.context THEN Throw(w)
  ELSE setupStoreEventListeners(setupUrlTracking([w EXCEPT !.lastUrl = w.location]))

\* Variant of initialize whose guard lets an INITIALIZING instance through.
initializeUnguarded(w) ==
  IF w.currentStatus[Gemini] = "active" THEN w
  ELSE IF w.currentStatus[Gemini] = "uninitialized"
       THEN [BaseInitializeBegin(w, Gemini) EXCEPT !.initInFlight = TRUE]
       ELSE initializeRest(BaseInitializeBegin(w, Gemini))

\* initialize(context), up to the suspension of super.initialize.
initialize(w) ==
  IF w.currentStatus[Gemini] \in {"initializing", "active"} THEN w
  ELSE IF w.currentStatus[Gemini] = "uninitialized"
       THEN [BaseInitializeBegin(w, Gemini) EXCEPT !.initInFlight = TRUE]
       ELSE initializeRest(BaseInitializeBegin(w, Gemini))

\* initialize(context), from the resumption of super.initialize to the end.
initializeResume(w) ==
  initializeRest([BaseInitializeEnd(w, Gemini) EXCEPT !.initInFlight = FALSE])

\* Variant of deactivate that does not call super.deactivate().
deactivateSkipsSuper(w) ==
  IF w.currentStatus[Gemini] \in {"inactive", "disabled"} THEN w
  ELSE IF ~w.context THEN Throw(w)
       ELSE Emit([cleanupDOMObservers(cleanupUIIntegration(w))
                    EXCEPT !.storeEventListenersSetup = FALSE,
                           !.domObserversSetup = FALSE,
                           !.uiIntegrationSetup = FALSE],
                 "adapter:deactivated")

\* Variant of deactivate whose guard also returns early when ACTIVE.
deactivateGuardsActive(w) ==
  IF w.currentStatus[Gemini] \in {"active", "inactive", "disabled"} THEN w
  ELSE LET w1 == BaseDeactivate(w, Gemini) IN
       IF ~w1.context THEN Throw(w1)
       ELSE Emit([cleanupDOMObservers(cleanupUIIntegration(w1))
                    EXCEPT !.storeEventListenersSetup = FALSE,
                           !.domObserversSetup = FALSE,
                           !.uiIntegrationSetup = FALSE],
                 "adapter:deactivated")

deactivate(w) ==
  IF w.currentStatus[Gemini] \in {"inactive", "disabled"} THEN w
  ELSE LET w1 == BaseDeactivate(w, Gemini) IN
       IF ~w1.context THEN Throw(w1)
       ELSE Emit([cleanupDOMObservers(cleanupUIIntegration(w1))
                    EXCEPT !.storeEventListenersSetup = FALSE,
                           !.domObserversSetup = FALSE,
                           !.uiIntegrationSetup = FALSE],
                 "adapter:deactivated")

cleanup(w) ==
  LET w1 == BaseCleanup(w, Gemini) IN
  IF ~w1.context THEN Throw(w1)
  ELSE LET w2 == IF w1.urlCheckInterval
                 THEN [w1 EXCEPT !.urlTimers = @ - 1, !.urlCheckInterval = FALSE]
                 ELSE w1
           w3 == IF w2.popoverCheckInterval
                 THEN [w2 EXCEPT !.popoverTimers = @ - 1, !.popoverCheckInterval = FALSE]
                 ELSE w2
       IN [cleanupDOMObservers(cleanupUIIntegration(w3))
             EXCEPT !.storeEventListenersSetup = FALSE,
                    !.domObserversSetup = FALSE,
                    !.uiIntegrationSetup = FALSE]

\* The deactivate() method of instance p: GeminiAdapter overrides it.
PluginDeactivate(w, p) ==
  IF p = Gemini THEN deactivate(w) ELSE BaseDeactivate(w, p)

\* super.activate(): only from IDLE or INACTIVE; the instance becomes the
\* registry's active one, the previous active instance is deactivated first.
BaseActivate(w, p) ==
  IF w.currentStatus[p] \in {"idle", "inactive"}
  THEN LET w1 == IF w.activePlugin \notin {NoPlugin, p}
                 THEN PluginDeactivate(w, w.activePlugin)
                 ELSE w
       IN [w1 EXCEPT !.currentStatus[p] = "active", !.activePlugin = p]
  ELSE w

activate(w) ==
  IF w.currentStatus[Gemini] = "active" THEN w
  ELSE LET w1 == BaseActivate(w, Gemini) IN
       IF ~w1.context THEN Throw(w1)
       ELSE Emit(setupUIIntegration(setupDOMObservers(w1)), "adapter:activated")

onPageChanged(w) ==
  LET w1 == [w EXCEPT !.lastUrl = w.location]
      w2 == IF isSupported(w1)
            THEN [w1 EXCEPT !.pageSetupTimers = @ + 1, !.pageRestoreTimers = @ + 1]
            ELSE w1
  IN Emit(w2, "app:site-changed")

\* onHostChanged(newHost, oldHost): on a page that is not supported it only
\* emits 'adapter:deactivated'; otherwise it sets up the UI integration.
onHostChanged(w) ==
  IF ~w.context THEN Throw(w)
  ELSE IF ~isSupported(w) THEN Emit(w, "adapter:deactivated")
  ELSE setupUIIntegration(w)

\* The setInterval callback of setupUrlTracking.
urlCheck(w) ==
  IF w.location # w.lastUrl
  THEN [onPageChanged(w) EXCEPT !.lastUrl = w.location]
  ELSE w

\* The setInterval callback of setupPeriodicPopoverCheck.
popoverCheck(w) ==
  IF ~isMCPPopoverInjected(w)
  THEN injectMCPPopoverWithRetry(w, HealMaxRetries)
  ELSE w

\* checkReady of waitForPageReady on one pending timeout: it resolves the
\* promise, whose continuation starts the injection, or polls again.
checkReady(w) ==
  IF findButtonInsertionPoint(w)
  THEN injectMCPPopoverWithRetry([w EXCEPT !.readyPolls = @ - 1], DefaultMaxRetries)
  ELSE w

ensureMCPPopoverConnection(w) ==
  IF ~isMCPPopoverInjected(w)
  THEN injectMCPPopoverWithRetry(w, HealMaxRetries)
  ELSE w

\* checkAndRestoreSidebar(); sidebar: window.activeSidebarManager is set.
checkAndRestoreSidebar(w, sidebar) ==
  IF sidebar THEN ensureMCPPopoverConnection(w) ELSE w

\* No tool is enabled, no auto-detach is pending, preferences.autoSubmit of
\* the UI store is off, no setter of the toggle state manager was called.
NoToggle ==
  [toolsEnabled |-> FALSE, detachTimers |-> 0, autoSubmit |-> FALSE,
   last |-> [setter |-> "none", enabled |-> FALSE, seq |-> 0]]

\* The event bus with no handler subscribed.
NoBus == [handlers |-> <<>>, op |-> "new", delivered |-> <<>>, escaped |-> FALSE]

\* The automation before any execution completed: nothing is switched on,
\* the active adapter is the Gemini adapter with its declared capabilities.
\* No message was received, no response sent, no tool call outstanding.
NoResponse == [sent |-> FALSE, success |-> FALSE, error |-> FALSE]

\* initRendererWithRetry = (retries = 3, delay = 300)
RendererRetries == 3

ReadyStates == {"loading", "interactive", "complete"}

\* The content script has not reached the renderer's fallback block.
NoRenderer ==
  [started |-> FALSE, listener |-> FALSE, readyState |-> "loading",
   rendererInitialized |-> FALSE, calls |-> 0,
   timers |-> [k \in 0..RendererRetries |-> 0], process |-> 0]

Blocks == {"block-1", "block-2"}

\* A function block that is not rendered: no history panel anywhere.
\* block: panels appended to the function block itself; buttons: panels
\* inside its 'function-buttons' container; nested: the container has a
\* '.function-block' ancestor.
NoPanels ==
  [rendered |-> FALSE, nested |-> FALSE, block |-> 0, buttons |-> 0, last |-> "none"]
Targets == {"function-block", "function-buttons"}

\* No file card of the context file in the document, no drop message posted.
NoDrops == [cards |-> 0, posted |-> 0]

\* sends: the calls of sendResponse for the last message so far.
NoSurface == [message |-> "none", response |-> NoResponse, calls |-> 0, sends |-> 0]

NoAutomation ==
  [autoInsert |-> FALSE, autoSubmit |-> FALSE,
   declared |-> {"text-insertion", "form-submission", "file-attachment", "dom-manipulation"},
   fingerprint |-> [set |-> FALSE, timestamp |-> 0, content |-> ""],
   invoked |-> <<>>]

\* ------------------------------------------------------------------------
\* Initial state: the instance is constructed, the page is loading.
\* ------------------------------------------------------------------------
Init ==
  /\ currentStatus = [p \in Plugins |-> "uninitialized"]
  /\ activePlugin = NoPlugin
  /\ context = FALSE
  /\ initInFlight = FALSE
  /\ lastUrl = ""
  /\ urlCheckInterval = FALSE
  /\ popoverCheckInterval = FALSE
  /\ mutationObserver = FALSE
  /\ storeEventListenersSetup = FALSE
  /\ domObserversSetup = FALSE
  /\ uiIntegrationSetup = FALSE
  /\ urlTimers = 0
  /\ popoverTimers = 0
  /\ observers = 0
  /\ listeners = 0
  /\ readyPolls = 0
  /\ retryTimeouts = [k \in RetryKeys |-> 0]
  /\ pageSetupTimers = 0
  /\ pageRestoreTimers = 0
  /\ popovers = 0
  /\ anchor \in BOOLEAN
  /\ location = AppUrl
  /\ events = <<>>
  /\ call = [op |-> "new", threw |-> FALSE, returned |-> FALSE]
  /\ mcpEnabledFromStore = FALSE
  /\ stateMcpEnabled = FALSE
  /\ tools = NoTools
  /\ attachmentRef = NullRef
  /\ continuations = [c \in Closures |-> 0]
  /\ now = 0
  /\ lastAttach = NullRef
  /\ trackingReset = FALSE
  /\ pcall = [attached |-> FALSE, skipped |-> FALSE, detached |-> FALSE,
              fileAttachment |-> FALSE]
  /\ locatorFails = 0
  /\ failedLocates = [m \in RetryBounds |-> 0]
  /\ failuresEmitted = [m \in RetryBounds |-> 0]
  /\ observerRun = [started |-> FALSE, failed |-> 0]
  /\ script = "initializeNewArchitecture"
  /\ architecture = "not-started"
  /\ startup = <<>>
  /\ mounted = FALSE
  /\ enabledBy = {}
  /\ automation = NoAutomation
  /\ bus = NoBus
  /\ toggle = NoToggle
  /\ surface = NoSurface
  /\ dropzone = NoDrops
  /\ renderer = NoRenderer
  /\ history = [b \in Blocks |-> NoPanels]

\* A step whose result is w.
Step(w) == Fits(w) /\ Commit(w)

\* ------------------------------------------------------------------------
\* Lifecycle calls on the Gemini instance
\* ------------------------------------------------------------------------
CallInitialize ==
  LET w == initialize(Begin("initialize")) IN Fits(w) /\ Commit(w)

ResumeInitialize ==
  /\ initInFlight
  /\ Step(initializeResume(Begin("initialize-resume")))

CallActivate ==
  LET w == activate(Begin("activate")) IN Fits(w) /\ Commit(w)

CallDeactivate ==
  LET w == deactivate(Begin("deactivate")) IN Fits(w) /\ Commit(w)

CallCleanup ==
  LET w == cleanup(Begin("cleanup")) IN Fits(w) /\ Commit(w)

\* ------------------------------------------------------------------------
\* Callbacks of the event loop
\* ------------------------------------------------------------------------
UrlIntervalTick ==
  /\ urlTimers > 0
  /\ Step(urlCheck(Begin("timer")))

PopoverIntervalTick ==
  /\ popoverTimers > 0
  /\ Step(popoverCheck(Begin("timer")))

ReadyPollFires ==
  /\ readyPolls > 0
  /\ Step(checkReady(Begin("timer")))

RetryTimeoutFires ==
  \E k \in RetryKeys :
    /\ retryTimeouts[k] > 0
    /\ Step(attemptInjection([Begin("timer") EXCEPT !.retryTimeouts[k] = @ - 1],
                             k[1], k[2]))

PageSetupTimerFires ==
  /\ pageSetupTimers > 0
  /\ Step(setupUIIntegration([Begin("timer") EXCEPT !.pageSetupTimers = @ - 1]))

PageRestoreTimerFires ==
  /\ pageRestoreTimers > 0
  /\ \E sidebar \in BOOLEAN :
       Step(checkAndRestoreSidebar(
              [Begin("timer") EXCEPT !.pageRestoreTimers = @ - 1], sidebar))

\* ------------------------------------------------------------------------
\* The host page
\* ------------------------------------------------------------------------
HostAddsAnchor ==
  /\ ~anchor
  /\ LET w == [Begin("host") EXCEPT !.anchor = TRUE]
     IN Step(NotifyObservers(w, w.observers))

HostRemovesAnchor ==
  /\ anchor
  /\ LET w == [Begin("host") EXCEPT !.anchor = FALSE]
     IN Step(NotifyObservers(w, w.observers))

HostRemovesPopover ==
  /\ popovers > 0
  /\ LET w == [Begin("host-removal") EXCEPT !.popovers = @ - 1]
     IN Step(NotifyObservers(w, w.observers))

Navigate ==
  \E u \in Urls \ {location} :
    LET w == [Begin("host") EXCEPT !.location = u] IN Fits(w) /\ Commit(w)

Next ==
  \/ CallInitialize
  \/ ResumeInitialize
  \/ CallActivate
  \/ CallDeactivate
  \/ CallCleanup
  \/ UrlIntervalTick
  \/ PopoverIntervalTick
  \/ ReadyPollFires
  \/ RetryTimeoutFires
  \/ PageSetupTimerFires
  \/ PageRestoreTimerFires
  \/ HostAddsAnchor
  \/ HostRemovesAnchor
  \/ HostRemovesPopover
  \/ Navigate

Spec == Init /\ [][Next]_vars

\* The plugin host tells the instance of a change of the host.
CallOnHostChanged ==
  LET w == onHostChanged(Begin("onHostChanged")) IN Fits(w) /\ Commit(w)

NextHostChange ==
  \/ Next
  \/ CallOnHostChanged

SpecHostChange == Init /\ [][NextHostChange]_vars

\* ------------------------------------------------------------------------
\* The plugin registry and a second adapter (specification 4.3)
\* ------------------------------------------------------------------------

\* The descriptor of p matches the host.
Matches(p, host) ==
  IF p = Gemini THEN host = GeminiHost ELSE host = OtherHost

\* resolve(host): the first descriptor in priority order that matches.
resolve(host) ==
  IF Matches(Gemini, host) THEN Gemini
  ELSE IF Matches(Other, host) THEN Other
  ELSE NoPlugin

\* initialize() of instance p, awaited to its end.
PluginInitialize(w, p) ==
  IF p = Gemini THEN initializeResume(initialize(w))
  ELSE BaseInitializeEnd(BaseInitializeBegin(w, p), p)

PluginActivate(w, p) ==
  IF p = Gemini THEN activate(w) ELSE BaseActivate(w, p)

PluginCleanup(w, p) ==
  IF p = Gemini THEN cleanup(w) ELSE BaseCleanup(w, p)

getActivePlugin(w) == w.activePlugin

\* Variant of activateFor that never takes the no-op branch.
activateForAlways(w, host) ==
  LET w1 == IF getActivePlugin(w) # NoPlugin
            THEN PluginDeactivate(w, getActivePlugin(w))
            ELSE w
      target == resolve(host)
  IN IF target = NoPlugin THEN w1
     ELSE IF w1.currentStatus[target] = "uninitialized"
          THEN PluginActivate(PluginInitialize(w1, target), target)
          ELSE PluginActivate(w1, target)

activateFor(w, host) ==
  IF getActivePlugin(w) # NoPlugin /\ Matches(getActivePlugin(w), host) THEN w
  ELSE LET w1 == IF getActivePlugin(w) # NoPlugin
                 THEN PluginDeactivate(w, getActivePlugin(w))
                 ELSE w
           target == resolve(host)
       IN IF target = NoPlugin THEN w1
          ELSE IF w1.currentStatus[target] = "uninitialized"
               THEN PluginActivate(PluginInitialize(w1, target), target)
               ELSE PluginActivate(w1, target)

ActivateFor ==
  \E host \in Hosts :
    LET w == activateFor(Begin("activateFor"), host) IN Fits(w) /\ Commit(w)

OtherInitialize ==
  /\ currentStatus[Other] = "uninitialized"
  /\ Step(PluginInitialize(Begin("other.initialize"), Other))

OtherActivate ==
  LET w == PluginActivate(Begin("other.activate"), Other) IN Fits(w) /\ Commit(w)

OtherDeactivate ==
  LET w == PluginDeactivate(Begin("other.deactivate"), Other) IN Fits(w) /\ Commit(w)

OtherCleanup ==
  LET w == PluginCleanup(Begin("other.cleanup"), Other) IN Fits(w) /\ Commit(w)

\* The registry, both adapters and the timers, on a host page that is not changing.
NextRegistry ==
  \/ ActivateFor
  \/ OtherInitialize
  \/ OtherActivate
  \/ OtherDeactivate
  \/ OtherCleanup
  \/ CallInitialize
  \/ ResumeInitialize
  \/ CallActivate
  \/ CallDeactivate
  \/ CallCleanup
  \/ PopoverIntervalTick
  \/ ReadyPollFires
  \/ RetryTimeoutFires

\* The adapter on one page of the host: lifecycle calls, the injection
\* timers and the host's changes of the document.
NextHeal ==
  \/ CallInitialize
  \/ ResumeInitialize
  \/ CallActivate
  \/ CallDeactivate
  \/ CallCleanup
  \/ PopoverIntervalTick
  \/ ReadyPollFires
  \/ RetryTimeoutFires
  \/ HostAddsAnchor
  \/ HostRemovesAnchor
  \/ HostRemovesPopover

\* The event loop runs every timer callback that stays due.
TimersFire ==
  /\ WF_vars(PopoverIntervalTick)
  /\ WF_vars(ReadyPollFires)
  /\ WF_vars(RetryTimeoutFires)

SpecHeal == Init /\ [][NextHeal]_vars /\ TimersFire

SpecRegistry == Init /\ [][NextRegistry]_vars

\* ========================================================================
\* MCPPopover (src/unnamed/part_004): the context-file attachment
\* ========================================================================

PWorld ==
  [mcpEnabledFromStore |-> mcpEnabledFromStore, stateMcpEnabled |-> stateMcpEnabled,
   tools |-> tools, attachmentRef |-> attachmentRef,
   continuations |-> continuations, now |-> now,
   lastAttach |-> lastAttach, trackingReset |-> trackingReset, pcall |-> pcall]

PCommitState(p) ==
  /\ mcpEnabledFromStore' = p.mcpEnabledFromStore
  /\ stateMcpEnabled' = p.stateMcpEnabled
  /\ tools' = p.tools
  /\ attachmentRef' = p.attachmentRef
  /\ continuations' = p.continuations
  /\ now' = p.now
  /\ lastAttach' = p.lastAttach
  /\ trackingReset' = p.trackingReset
  /\ pcall' = p.pcall

PCommit(p) == PCommitState(p) /\ UNCHANGED <<avars, mvars, rvars, cvars, ovars, svars>>

\* The state a step of the component starts from: nothing attached, skipped
\* or detached yet, no plugin involved.
PBegin ==
  [PWorld EXCEPT !.pcall = [attached |-> FALSE, skipped |-> FALSE, detached |-> FALSE,
                            fileAttachment |-> FALSE]]

PFits(p) == SumOver(p.continuations, Closures) <= MaxContinuations

\* `${systemContext}\n\n${toolsContext}` for a tool list.
completeContext(t) == <<"instructions", t>>

\* `Available MCP Tools:\n${toolsDescription}` of the fallback, for a tool list.
contextMessage(t) == <<"", t>>

\* Variant of the duplicate check that never finds a recent attachment.
recentlyAttachedNever(ref, ctx, t) == FALSE

\* attachmentRef.current && attachmentRef.current.context === context &&
\* now - attachmentRef.current.timestamp < 2000
recentlyAttached(ref, ctx, t) ==
  ref.set /\ ref.context = ctx /\ t - ref.timestamp < Cooldown

\* attachFile(file) followed by "Track this attachment".
attachAndTrack(p, ctx) ==
  LET r == [set |-> TRUE, timestamp |-> p.now, context |-> ctx] IN
  [p EXCEPT !.attachmentRef = r, !.lastAttach = r, !.trackingReset = FALSE,
            !.pcall.attached = TRUE]

skipDuplicate(p) == [p EXCEPT !.pcall.skipped = TRUE]

Suspend(p, kind, t) == [p EXCEPT !.continuations[[kind |-> kind, tools |-> t]] = @ + 1]

\* The tools-changed effect, up to the dynamic import.
toolsEffect(p) ==
  IF ~p.stateMcpEnabled \/ p.tools = NoTools THEN p
  ELSE Suspend(p, "effect", p.tools)

\* The effect's .then callback: the import succeeded.
effectThen(p, c, attachFile) ==
  IF recentlyAttached(p.attachmentRef, completeContext(c.tools), p.now)
  THEN skipDuplicate(p)
  ELSE IF attachFile THEN attachAndTrack(p, completeContext(c.tools)) ELSE p

\* The effect's .catch callback: the import failed, "fallback to original behavior".
effectCatch(p, c, attachFile) ==
  IF recentlyAttached(p.attachmentRef, contextMessage(c.tools), p.now)
  THEN skipDuplicate(p)
  ELSE IF attachFile THEN attachAndTrack(p, contextMessage(c.tools)) ELSE p

\* handleButtonClick, up to its first await.
handleButtonClick(p, isConnected) ==
  IF ~isConnected THEN p
  ELSE IF p.stateMcpEnabled
       THEN Suspend([p EXCEPT !.mcpEnabledFromStore = FALSE], "click-disable", NoTools)
       ELSE Suspend([p EXCEPT !.mcpEnabledFromStore = TRUE], "click-enable", p.tools)

\* handleButtonClick, disabling branch after its awaits: detachFile is called
\* if the active plugin has the method (a failing call is caught), then
\* "Reset attachment tracking when MCP is disabled".
clickDisableRest(p, detachFile) ==
  [p EXCEPT !.attachmentRef = NullRef, !.trackingReset = TRUE,
            !.pcall.detached = detachFile]

\* handleButtonClick, enabling branch after its awaits.
clickEnableRest(p, c, attachFile) ==
  IF ~attachFile \/ c.tools = NoTools THEN p
  ELSE IF recentlyAttached(p.attachmentRef, completeContext(c.tools), p.now)
       THEN skipDuplicate(p)
       ELSE attachAndTrack(p, completeContext(c.tools))

\* A suspended handler or import settles. ok: the awaited promises fulfilled;
\* attachFile, detachFile: the closure holds an active plugin with that method.
settle(p, c, ok, attachFile, detachFile) ==
  IF c.kind = "effect"
  THEN (IF ok THEN effectThen(p, c, attachFile) ELSE effectCatch(p, c, attachFile))
  ELSE IF c.kind = "click-disable"
       THEN (IF ok THEN clickDisableRest(p, detachFile) ELSE p)
       ELSE (IF ok THEN clickEnableRest(p, c, attachFile) ELSE p)

\* The user clicks the main button.
ClickButton ==
  \E isConnected \in BOOLEAN :
    LET p == handleButtonClick(PBegin, isConnected)
    IN PFits(p) /\ PCommit(p)

\* The effect on [mcpEnabledFromStore] copies the store's flag into the state;
\* the render it causes runs the effect on [tools, state.mcpEnabled].
SyncFromStore ==
  /\ stateMcpEnabled # mcpEnabledFromStore
  /\ LET p == toolsEffect([PBegin EXCEPT !.stateMcpEnabled = mcpEnabledFromStore])
     IN PFits(p) /\ PCommit(p)

\* The store delivers a new tool list; the render runs the effect on
\* [tools, state.mcpEnabled].
ToolsChanged ==
  \E t \in ToolLists \ {tools} :
    LET p == toolsEffect([PBegin EXCEPT !.tools = t])
    IN PFits(p) /\ PCommit(p)

\* fileAttachment: the capabilities of the closure's active plugin include
\* 'file-attachment'.
Settle ==
  \E c \in Closures, ok \in BOOLEAN, attachFile \in BOOLEAN, detachFile \in BOOLEAN,
     fileAttachment \in BOOLEAN :
    /\ continuations[c] > 0
    /\ PCommit(settle([PBegin EXCEPT !.continuations[c] = @ - 1,
                                     !.pcall.fileAttachment = fileAttachment],
                      c, ok, attachFile, detachFile))

Tick ==
  /\ now + TickMs <= MaxTime
  /\ PCommit([PBegin EXCEPT !.now = @ + TickMs])

NextPopover ==
  \/ ClickButton
  \/ SyncFromStore
  \/ ToolsChanged
  \/ Settle
  \/ Tick

SpecPopover == Init /\ [][NextPopover]_vars

\* ========================================================================
\* Injection runs against a locator that fails a given number of times
\* ========================================================================

\* The callbacks of the injection run with retry bound m that are pending:
\* its numbered attempts and, for the run that setupUIIntegration starts,
\* the page-ready poll in front of it.
PendingOfRun(w, m) ==
  SumOver(w.retryTimeouts, {k \in RetryKeys : k[2] = m})
    + (IF m = DefaultMaxRetries THEN w.readyPolls ELSE 0)

\* A callback of the run with bound m ended in w. located: it called
\* findButtonInsertionPoint(); the locator answered as `anchor` said and
\* answers the next call according to the failures it has left.
LocatorCommit(w, m, located, fails, failed, emitted) ==
  LET missed == located /\ ~anchor
      left == IF missed /\ fails > 0 THEN fails - 1 ELSE fails
  IN /\ CommitAdapter([w EXCEPT !.anchor = (left = 0)])
     /\ locatorFails' = left
     /\ failedLocates' = [failed EXCEPT ![m] = IF missed THEN @ + 1 ELSE @]
     /\ failuresEmitted' =
          [emitted EXCEPT ![m] = IF \E i \in DOMAIN w.events : w.events[i] = "injection-failed"
                                 THEN @ + 1 ELSE @]
     /\ observerRun' =
          [observerRun EXCEPT !.failed = IF @ < MaxLocatorFails /\ missed /\ observerRun.started
                                            /\ m = DefaultMaxRetries
                                         THEN @ + 1 ELSE @]
     /\ UNCHANGED <<pvars, svars, ovars, cvars, rvars>>

NoRuns == [m \in RetryBounds |-> 0]

\* activate() on a page whose locator will fail f times.
LocatorActivate ==
  \E f \in 0..MaxLocatorFails :
    /\ currentStatus[Gemini] = "idle"
    /\ LET w == activate([Begin("activate") EXCEPT !.anchor = (f = 0)])
       IN /\ Fits(w)
          /\ CommitAdapter(w)
          /\ locatorFails' = f
          /\ failedLocates' = NoRuns
          /\ failuresEmitted' = NoRuns
          /\ observerRun' = [started |-> FALSE, failed |-> 0]
          /\ UNCHANGED <<pvars, svars, ovars, cvars, rvars>>

\* While ACTIVE and no run is in progress the host re-renders: the control
\* surface is removed, the locator will fail f times, and the connected
\* MutationObserver is told of the childList change.
LocatorObserverTrigger ==
  \E f \in 0..MaxLocatorFails :
    /\ currentStatus[Gemini] = "active"
    /\ popovers > 0
    /\ mutationObserver
    /\ \A m \in RetryBounds : PendingOfRun(World, m) = 0
    /\ LET w0 == [Begin("host-removal") EXCEPT !.popovers = @ - 1, !.anchor = (f = 0)]
           w == NotifyObservers(w0, w0.observers)
       IN /\ Fits(w)
          /\ CommitAdapter(w)
          /\ locatorFails' = f
          /\ failedLocates' = NoRuns
          /\ failuresEmitted' = NoRuns
          /\ observerRun' = [started |-> TRUE, failed |-> 0]
          /\ UNCHANGED <<pvars, svars, ovars, cvars, rvars>>

\* A checkReady timeout of the run that setupUIIntegration started fires.
LocatorReadyPoll ==
  /\ readyPolls > 0
  /\ LET w == checkReady(Begin("timer"))
     IN Fits(w) /\ LocatorCommit(w, DefaultMaxRetries, TRUE, locatorFails,
                                 failedLocates, failuresEmitted)

\* A numbered attempt of a run fires.
LocatorRetry ==
  \E k \in RetryKeys :
    /\ retryTimeouts[k] > 0
    /\ LET w == attemptInjection([Begin("timer") EXCEPT !.retryTimeouts[k] = @ - 1],
                                 k[1], k[2])
       IN Fits(w) /\ LocatorCommit(w, k[2], ~isMCPPopoverInjected(World), locatorFails,
                                   failedLocates, failuresEmitted)

\* The 5 s interval fires while no run it started is in progress: a new run
\* with the smaller bound.
LocatorHealTick ==
  /\ popoverTimers > 0
  /\ PendingOfRun(World, HealMaxRetries) = 0
  /\ LET w == popoverCheck(Begin("timer"))
     IN Fits(w) /\ LocatorCommit(w, HealMaxRetries, ~isMCPPopoverInjected(World),
                                 locatorFails,
                                 [failedLocates EXCEPT ![HealMaxRetries] = 0],
                                 [failuresEmitted EXCEPT ![HealMaxRetries] = 0])

NextInjector ==
  \/ CallInitialize
  \/ ResumeInitialize
  \/ LocatorActivate
  \/ LocatorReadyPoll
  \/ LocatorRetry
  \/ LocatorHealTick
  \/ LocatorObserverTrigger

SpecInjector == Init /\ [][NextInjector]_vars

\* ========================================================================
\* Capability operations of the Gemini adapter
\* ========================================================================

capabilities == {"text-insertion", "form-submission", "file-attachment", "dom-manipulation"}

\* handleToolExecutionCompleted(data): it only logs.
handleToolExecutionCompleted(w) == w

\* emitExecutionCompleted(...): 'tool:execution-completed' on the event bus,
\* delivered to the listener of setupStoreEventListeners.
emitExecutionCompleted(w) ==
  handleToolExecutionCompleted(Emit(w, "tool:execution-completed"))

\* emitExecutionFailed(...): 'tool:execution-failed' on the event bus.
emitExecutionFailed(w) == Emit(w, "tool:execution-failed")

Return(w, b) == [w EXCEPT !.call.returned = b]

\* insertText(text). targetElement: a chat input was found; domThrows: an
\* access to the element throws.
insertText(w, targetElement, domThrows) ==
  IF ~w.context THEN Throw(w)
  ELSE IF ~targetElement THEN Return(emitExecutionFailed(w), FALSE)
  ELSE IF domThrows THEN Return(emitExecutionFailed(w), FALSE)
  ELSE Return(emitExecutionCompleted(w), TRUE)

\* submitForm(). submitButton: a button was found; usable: it is enabled
\* and has a size; domThrows: an access to the button throws.
submitForm(w, submitButton, usable, domThrows) ==
  IF ~w.context THEN Throw(w)
  ELSE IF ~submitButton THEN Return(emitExecutionFailed(w), FALSE)
  ELSE IF domThrows THEN Return(emitExecutionFailed(w), FALSE)
  ELSE IF ~usable THEN Return(emitExecutionFailed(w), FALSE)
  ELSE Return(emitExecutionCompleted(w), TRUE)

Files == {"null", "empty", "mcp-tools.txt"}

\* attachFile(file). The first statement reads file.name, in front of the
\* try block that validates the file. d: what the document and the page
\* context answer.
attachFile(w, file, d) ==
  IF ~w.context \/ file = "null" THEN Throw(w)
  ELSE IF file = "empty" THEN Return(emitExecutionFailed(w), FALSE)
  ELSE IF d.alreadyAttached THEN Return(emitExecutionCompleted(w), TRUE)
  ELSE IF ~d.supportsFileUpload THEN Return(emitExecutionFailed(w), FALSE)
  ELSE IF ~d.dropListener THEN Return(emitExecutionFailed(w), FALSE)
  ELSE IF d.readThrows THEN Return(emitExecutionFailed(w), FALSE)
  ELSE Return(emitExecutionCompleted(w), TRUE)

\* detachFile, "Step 4: Wait and verify the file card was removed".
detachVerify(w, cardStillExists) ==
  IF ~cardStillExists THEN Return(emitExecutionCompleted(w), TRUE)
  ELSE Return(emitExecutionCompleted(w), FALSE)

\* detachFile(fileName). d: what the document answers.
detachFile(w, d) ==
  IF ~w.context THEN Throw(w)
  ELSE IF d.searchThrows THEN Return(emitExecutionFailed(w), FALSE)
  ELSE IF ~d.fileCards THEN Return(emitExecutionFailed(w), FALSE)
  ELSE IF ~d.targetCard THEN Return(emitExecutionFailed(w), FALSE)
  ELSE IF ~d.closeButton THEN Return(emitExecutionFailed(w), FALSE)
  ELSE IF d.clickThrows THEN Return(emitExecutionFailed(w), FALSE)
  ELSE detachVerify(w, d.cardStillExists)

AttachAnswers ==
  [alreadyAttached : BOOLEAN, supportsFileUpload : BOOLEAN, dropListener : BOOLEAN,
   readThrows : BOOLEAN]

DetachAnswers ==
  [searchThrows : BOOLEAN, fileCards : BOOLEAN, targetCard : BOOLEAN,
   closeButton : BOOLEAN, clickThrows : BOOLEAN, cardStillExists : BOOLEAN]

CallInsertText ==
  \E targetElement \in BOOLEAN, domThrows \in BOOLEAN :
    LET w == insertText(Begin("insertText"), targetElement, domThrows)
    IN Fits(w) /\ Commit(w)

CallSubmitForm ==
  \E submitButton \in BOOLEAN, usable \in BOOLEAN, domThrows \in BOOLEAN :
    LET w == submitForm(Begin("submitForm"), submitButton, usable, domThrows)
    IN Fits(w) /\ Commit(w)

CallAttachFile ==
  \E file \in Files, d \in AttachAnswers :
    LET w == attachFile(Begin("attachFile"), file, d)
    IN Fits(w) /\ Commit(w)

CallDetachFile ==
  \E d \in DetachAnswers :
    LET w == detachFile(Begin("detachFile"), d)
    IN Fits(w) /\ Commit(w)

NextOperations ==
  \/ CallInitialize
  \/ ResumeInitialize
  \/ CallActivate
  \/ CallDeactivate
  \/ CallCleanup
  \/ CallInsertText
  \/ CallSubmitForm
  \/ CallAttachFile
  \/ CallDetachFile

SpecOperations == Init /\ [][NextOperations]_vars

\* ------------------------------------------------------------------------
\* attachFile on a page that shows a file card for every drop it accepted
\* ------------------------------------------------------------------------

ContextFile == "mcp-tools.txt"

\* attachFile(file) gets as far as window.postMessage({ type: 'MCP_DROP_FILE' }).
postsDrop(w, file, d) ==
  /\ w.context /\ file \notin {"null", "empty"}
  /\ ~d.alreadyAttached /\ d.supportsFileUpload /\ d.dropListener /\ ~d.readThrows

\* The duplicate check of attachFile finds a card with the file's name.
cardPresent(z) == z.cards > 0

\* attachFile(ContextFile) on the page as it is.
AttachContextFile ==
  \E d \in AttachAnswers :
    /\ d.alreadyAttached = cardPresent(dropzone)
    /\ LET w == attachFile(Begin("attachFile"), ContextFile, d)
       IN /\ Fits(w)
          /\ CommitAdapter(w)
          /\ IF postsDrop(w, ContextFile, d)
             THEN /\ dropzone.posted < MaxPending
                  /\ dropzone' = [dropzone EXCEPT !.posted = @ + 1]
             ELSE UNCHANGED dropzone
    /\ UNCHANGED <<pvars, mvars, rvars, svars, ovars, surface>>

\* The page handles a drop message: it shows a card for the file, or not.
PageHandlesDrop ==
  \E accepted \in BOOLEAN :
    /\ dropzone.posted > 0
    /\ accepted => dropzone.cards < MaxPending
    /\ dropzone' = [cards |-> IF accepted THEN dropzone.cards + 1 ELSE dropzone.cards,
                    posted |-> dropzone.posted - 1]
    /\ CommitAdapter(Begin("page"))
    /\ UNCHANGED <<pvars, mvars, rvars, svars, ovars, surface>>

\* The user removes a card of the file.
UserRemovesCard ==
  /\ dropzone.cards > 0
  /\ dropzone' = [dropzone EXCEPT !.cards = @ - 1]
  /\ CommitAdapter(Begin("page"))
  /\ UNCHANGED <<pvars, mvars, rvars, svars, ovars, surface>>

NextAttach ==
  \/ CallInitialize
  \/ ResumeInitialize
  \/ CallActivate
  \/ CallDeactivate
  \/ AttachContextFile
  \/ PageHandlesDrop
  \/ UserRemovesCard

SpecAttach == Init /\ [][NextAttach]_vars

\* ========================================================================
\* Automation of completed tool executions (automation.service.ts)
\* ========================================================================

Results == {"result-a", "result-b"}

\* The capability sets of the adapters that can be active.
CapabilitySets ==
  {capabilities, {"text-insertion"}, {"form-submission", "dom-manipulation"}, {}}

DocumentAnswers ==
  [targetElement : BOOLEAN, submitButton : BOOLEAN, usable : BOOLEAN, domThrows : BOOLEAN]

\* The automation at the start of a step: no operation invoked yet.
ABegin == [automation EXCEPT !.invoked = <<>>]

\* An equal fingerprint was recorded within the cooldown window.
recentlyRecorded(a, result, t) ==
  a.fingerprint.set /\ a.fingerprint.content = result
    /\ t - a.fingerprint.timestamp < Cooldown

\* Variant of handleAutoInsert that does not look at the capabilities.
handleAutoInsertUngated(r, d) ==
  IF r.a.autoInsert
  THEN [w |-> insertText(r.w, d.targetElement, d.domThrows),
        a |-> [r.a EXCEPT !.invoked = Append(@, "insertText")]]
  ELSE r

\* Auto Insert: inserts the tool result into the chat input.
handleAutoInsert(r, d) ==
  IF r.a.autoInsert /\ "text-insertion" \in r.a.declared
  THEN [w |-> insertText(r.w, d.targetElement, d.domThrows),
        a |-> [r.a EXCEPT !.invoked = Append(@, "insertText")]]
  ELSE r

\* Auto Submit: submits the chat input after the tool result insertion.
handleAutoSubmit(r, d) ==
  IF r.a.autoSubmit /\ "form-submission" \in r.a.declared
  THEN [w |-> submitForm(r.w, d.submitButton, d.usable, d.domThrows),
        a |-> [r.a EXCEPT !.invoked = Append(@, "submitForm")]]
  ELSE r

\* The gated steps of one execution, in their order.
runAutomationsSubmitFirst(r, d) == handleAutoInsert(handleAutoSubmit(r, d), d)

\* Variant in which a completion event that the operations of the first
\* round emitted starts a second round.
runAutomationsReentrant(r, d) ==
  LET r1 == handleAutoSubmit(handleAutoInsert(r, d), d)
  IN IF \E i \in DOMAIN r1.w.events : r1.w.events[i] = "tool:execution-completed"
     THEN handleAutoSubmit(handleAutoInsert(r1, d), d)
     ELSE r1

runAutomations(r, d) == handleAutoSubmit(handleAutoInsert(r, d), d)

\* Variant of the handler without the master enable flag.
onExecutionCompletedUngated(r, enabled, result, t, d) ==
  IF recentlyRecorded(r.a, result, t)
  THEN [r EXCEPT !.w = Emit(r.w, "AutomationSkipped")]
  ELSE runAutomations(
         [r EXCEPT !.a.fingerprint = [set |-> TRUE, timestamp |-> t, content |-> result]], d)

\* The handler of a completed execution: master flag, duplicate check, then
\* the gated steps with the new fingerprint recorded.
onExecutionCompleted(r, enabled, result, t, d) ==
  IF ~enabled THEN r
  ELSE IF recentlyRecorded(r.a, result, t)
  THEN [r EXCEPT !.w = Emit(r.w, "AutomationSkipped")]
  ELSE runAutomations(
         [r EXCEPT !.a.fingerprint = [set |-> TRUE, timestamp |-> t, content |-> result]], d)

\* 'tool:execution-completed' arrives from the tool-execution backend: the
\* adapter's listener runs, then the automation.
ExecutionCompleted ==
  \E result \in Results, d \in DocumentAnswers :
    LET w0 == handleToolExecutionCompleted(Begin("execution-completed"))
        r == onExecutionCompleted([w |-> w0, a |-> ABegin], mcpEnabledFromStore,
                                  result, now, d)
    IN /\ Fits(r.w)
       /\ CommitAdapter(r.w)
       /\ automation' = r.a
       /\ UNCHANGED <<pvars, mvars, rvars, cvars, svars, bus, toggle>>

\* The user changes the preference autoInsert or autoSubmit.
SetPreference ==
  \E flag \in {"autoInsert", "autoSubmit"}, enabled \in BOOLEAN :
    /\ CommitAdapter(Begin("setPreference"))
    /\ automation' = [ABegin EXCEPT ![flag] = enabled]
    /\ UNCHANGED <<pvars, mvars, rvars, cvars, svars, bus, toggle>>

\* The UI store's setMCPEnabled(enabled, source), as the content script's
\* message listener and the MCPPopover call it.
StoreSetMCPEnabled ==
  \E enabled \in BOOLEAN :
    /\ CommitAdapter(Begin("setMCPEnabled"))
    /\ PCommitState([PBegin EXCEPT !.mcpEnabledFromStore = enabled])
    /\ automation' = ABegin
    /\ UNCHANGED <<mvars, rvars, cvars, svars, bus, toggle>>

\* The toggle state manager's setMCPEnabled(enabled) writes the UI store and
\* shows or hides the sidebar; when disabling it sets the 100 ms timeout of
\* the auto-detach.
CallSetMCPEnabled ==
  \E enabled \in BOOLEAN :
    /\ enabled \/ toggle.detachTimers < MaxPending
    /\ CommitAdapter(Begin("setMCPEnabled"))
    /\ PCommitState([PBegin EXCEPT !.mcpEnabledFromStore = enabled])
    /\ automation' = ABegin
    /\ toggle' = [toggle EXCEPT !.detachTimers = IF enabled THEN @ ELSE @ + 1]
    /\ UNCHANGED <<mvars, rvars, cvars, svars, bus>>

\* The auto-detach timeout fires: window.currentGeminiAdapter, set by the
\* constructor, is found and its detachFile() is called; a rejection is
\* caught and logged.
AutoDetachFires ==
  \E d \in DetachAnswers :
    /\ toggle.detachTimers > 0
    /\ LET w == detachFile(Begin("detachFile"), d)
       IN Fits(w) /\ CommitAdapter(w)
    /\ toggle' = [toggle EXCEPT !.detachTimers = @ - 1]
    /\ UNCHANGED <<pvars, mvars, rvars, cvars, svars, automation, bus>>

\* Another adapter, with its own capability set, becomes the active one.
AdapterSwitch ==
  \E d \in CapabilitySets :
    /\ CommitAdapter(Begin("adapter-changed"))
    /\ automation' = [ABegin EXCEPT !.declared = d]
    /\ UNCHANGED <<pvars, mvars, rvars, cvars, svars, bus, toggle>>

NextAutomation ==
  \/ CallInitialize
  \/ ResumeInitialize
  \/ ExecutionCompleted
  \/ SetPreference
  \/ StoreSetMCPEnabled
  \/ AdapterSwitch
  \/ Tick

SpecAutomation == Init /\ [][NextAutomation]_vars

\* ========================================================================
\* Disabling MCP: the toggle state manager and the button of the MCPPopover
\* ========================================================================

\* The user clicks the main button: handleButtonClick up to its first await,
\* with its disableAllTools() / enableAllTools().
ToggleClick ==
  \E isConnected \in BOOLEAN :
    LET p == handleButtonClick(PBegin, isConnected)
    IN /\ PFits(p)
       /\ PCommitState(p)
       /\ toggle' = [toggle EXCEPT !.toolsEnabled = IF isConnected THEN ~stateMcpEnabled ELSE @]
       /\ UNCHANGED <<avars, mvars, rvars, cvars, svars, automation, bus>>

NextToggle ==
  \/ CallInitialize
  \/ ResumeInitialize
  \/ CallSetMCPEnabled
  \/ AutoDetachFires
  \/ ToggleClick
  \/ SyncFromStore
  \/ Settle

SpecToggle == Init /\ [][NextToggle]_vars

\* ========================================================================
\* EventBus: subscribe(event, handler), emit(event, payload)
\* ========================================================================

MaxRendererCalls == 6   \* calls of initializeRenderer() that one run is followed for

MaxHandlers == 3

HandlerIds == 1..MaxHandlers

\* Variant of the delivery in which a throwing handler ends the delivery and
\* its exception leaves emit().
RECURSIVE deliverUncaught(_, _, _)
deliverUncaught(b, hs, i) ==
  IF i > Len(hs) THEN b
  ELSE IF hs[i].throws
       THEN [b EXCEPT !.delivered = Append(@, hs[i].id), !.escaped = TRUE]
       ELSE deliverUncaught([b EXCEPT !.delivered = Append(@, hs[i].id)], hs, i + 1)

\* Delivery to the handlers hs from the i-th on, in subscription order; an
\* exception of a handler is caught and logged by the bus.
RECURSIVE deliver(_, _, _)
deliver(b, hs, i) ==
  IF i > Len(hs) THEN b
  ELSE deliver([b EXCEPT !.delivered = Append(@, hs[i].id)], hs, i + 1)

\* emit(event, payload): synchronous delivery to the handlers registered at
\* the moment of the call.
emit(b) ==
  deliver([b EXCEPT !.op = "emit", !.delivered = <<>>, !.escaped = FALSE], b.handlers, 1)

\* subscribe(event, handler), as eventBus.on(...) of the content script and
\* of setupStoreEventListeners. throws: the handler throws when it is run.
Subscribe ==
  \E id \in HandlerIds, throws \in BOOLEAN :
    /\ \A i \in DOMAIN bus.handlers : bus.handlers[i].id # id
    /\ bus' = [bus EXCEPT !.op = "subscribe",
                          !.handlers = Append(@, [id |-> id, throws |-> throws])]
    /\ UNCHANGED <<avars, pvars, mvars, rvars, cvars, svars, automation, toggle>>

\* The unsubscribe() that subscribe returned.
Unsubscribe ==
  \E i \in DOMAIN bus.handlers :
    /\ bus' = [bus EXCEPT !.op = "unsubscribe",
                          !.handlers = SubSeq(@, 1, i - 1) \o SubSeq(@, i + 1, Len(@))]
    /\ UNCHANGED <<avars, pvars, mvars, rvars, cvars, svars, automation, toggle>>

EmitEvent ==
  /\ bus' = emit(bus)
  /\ UNCHANGED <<avars, pvars, mvars, rvars, cvars, svars, automation, toggle>>

NextBus ==
  \/ Subscribe
  \/ Unsubscribe
  \/ EmitEvent

SpecBus == Init /\ [][NextBus]_vars

\* ========================================================================
\* Content script startup (src/pages/content/src/index.ts)
\* ========================================================================

\* A page load whose UI store holds either value of mcpEnabled from the
\* session before.
InitStartup ==
  /\ currentStatus = [p \in Plugins |-> "uninitialized"]
  /\ activePlugin = NoPlugin
  /\ context = FALSE
  /\ initInFlight = FALSE
  /\ lastUrl = ""
  /\ urlCheckInterval = FALSE
  /\ popoverCheckInterval = FALSE
  /\ mutationObserver = FALSE
  /\ storeEventListenersSetup = FALSE
  /\ domObserversSetup = FALSE
  /\ uiIntegrationSetup = FALSE
  /\ urlTimers = 0
  /\ popoverTimers = 0
  /\ observers = 0
  /\ listeners = 0
  /\ readyPolls = 0
  /\ retryTimeouts = [k \in RetryKeys |-> 0]
  /\ pageSetupTimers = 0
  /\ pageRestoreTimers = 0
  /\ popovers = 0
  /\ anchor = TRUE
  /\ location = AppUrl
  /\ events = <<>>
  /\ call = [op |-> "new", threw |-> FALSE, returned |-> FALSE]
  /\ mcpEnabledFromStore \in BOOLEAN
  /\ stateMcpEnabled = FALSE
  /\ tools = NoTools
  /\ attachmentRef = NullRef
  /\ continuations = [c \in Closures |-> 0]
  /\ now = 0
  /\ lastAttach = NullRef
  /\ trackingReset = FALSE
  /\ pcall = [attached |-> FALSE, skipped |-> FALSE, detached |-> FALSE,
              fileAttachment |-> FALSE]
  /\ locatorFails = 0
  /\ failedLocates = [m \in RetryBounds |-> 0]
  /\ failuresEmitted = [m \in RetryBounds |-> 0]
  /\ observerRun = [started |-> FALSE, failed |-> 0]
  /\ script = "initializeNewArchitecture"
  /\ architecture = "not-started"
  /\ startup = <<>>
  /\ mounted = FALSE
  /\ enabledBy = {}
  /\ automation = NoAutomation
  /\ bus = NoBus
  /\ toggle = NoToggle
  /\ surface = NoSurface
  /\ dropzone = NoDrops
  /\ renderer = NoRenderer
  /\ history = [b \in Blocks |-> NoPanels]

Called(name) == \E i \in DOMAIN startup : startup[i] = name

\* createToggleStateManager().getState(): the flag is the UI store's flag,
\* autoInsert and autoSubmit are both preferences.autoSubmit.
getState ==
  [mcpEnabled |-> mcpEnabledFromStore, autoInsert |-> toggle.autoSubmit,
   autoSubmit |-> toggle.autoSubmit, autoExecute |-> FALSE]

\* The first top-level block: initializeNewArchitecture() runs up to its
\* first await, which is the call of applicationInit().
RunInitializeNewArchitecture ==
  /\ script = "initializeNewArchitecture"
  /\ script' = "ensureMcpDisabledAndToolsDeselectedOnStartup"
  /\ architecture' = "awaits-applicationInit"
  /\ startup' = Append(startup, "applicationInit")
  /\ UNCHANGED <<avars, pvars, mvars, rvars, cvars, ovars, mounted, enabledBy>>

\* The block at the end of the file. hookThrows: useMCPState(), a hook
\* called outside any component, throws; the catch ignores it silently.
RunEnsureMcpDisabled ==
  \E hookThrows \in BOOLEAN :
    /\ script = "ensureMcpDisabledAndToolsDeselectedOnStartup"
    /\ script' = "ensurePluginSystem"
    /\ IF hookThrows
       THEN UNCHANGED <<startup, pvars>>
       ELSE /\ startup' = Append(startup, "setMCPEnabled")
            /\ PCommitState([PBegin EXCEPT !.mcpEnabledFromStore = FALSE])
    /\ UNCHANGED <<avars, mvars, rvars, cvars, ovars, architecture, mounted, enabledBy>>

\* The last block calls applicationInit() again.
RunEnsurePluginSystem ==
  /\ script = "ensurePluginSystem"
  /\ script' = "evaluated"
  /\ startup' = Append(startup, "applicationInit")
  /\ UNCHANGED <<avars, pvars, mvars, rvars, cvars, ovars, architecture, mounted, enabledBy>>

\* applicationInit() settles once the script is evaluated; ok: it was
\* fulfilled, and initializeNewArchitecture() goes on to the services.
ApplicationInitSettles ==
  \E ok \in BOOLEAN :
    /\ script = "evaluated"
    /\ architecture = "awaits-applicationInit"
    /\ architecture' = IF ok THEN "awaits-initializeAllServices" ELSE "fallback"
    /\ startup' = IF ok THEN Append(startup, "initializeAllServices") ELSE startup
    /\ UNCHANGED <<avars, pvars, mvars, rvars, cvars, ovars, script, mounted, enabledBy>>

ServicesSettle ==
  \E ok \in BOOLEAN :
    /\ architecture = "awaits-initializeAllServices"
    /\ architecture' = IF ok THEN "initialized" ELSE "fallback"
    /\ UNCHANGED <<avars, pvars, mvars, rvars, cvars, ovars, script, startup, mounted, enabledBy>>

\* The adapter that the application initialisation activated mounts the
\* component: the state starts with mcpEnabled false, and the effect on
\* [mcpEnabledFromStore] of the first render copies the store's flag.
MountPopover ==
  /\ Called("applicationInit")
  /\ script = "evaluated"
  /\ ~mounted
  /\ mounted' = TRUE
  /\ LET p == toolsEffect([PBegin EXCEPT !.stateMcpEnabled = mcpEnabledFromStore])
     IN PFits(p) /\ PCommitState(p)
  /\ UNCHANGED <<avars, mvars, rvars, cvars, ovars, script, architecture, startup, enabledBy>>

\* The effect on [mcpEnabledFromStore] of the mounted component.
StoreSync ==
  /\ mounted
  /\ SyncFromStore

\* The user clicks the main button of the mounted component.
UserClick ==
  \E isConnected \in BOOLEAN :
    /\ mounted
    /\ LET p == handleButtonClick(PBegin, isConnected)
       IN /\ PFits(p)
          /\ PCommitState(p)
          /\ enabledBy' = IF p.mcpEnabledFromStore /\ ~mcpEnabledFromStore
                          THEN enabledBy \cup {"mcp-popover"} ELSE enabledBy
    /\ UNCHANGED <<avars, mvars, rvars, cvars, ovars, script, architecture, startup, mounted>>

\* The message 'mcp:toggle-sidebar' of the extension's action icon.
ToggleSidebarCommand ==
  /\ script = "evaluated"
  /\ PCommitState([PBegin EXCEPT !.mcpEnabledFromStore = ~mcpEnabledFromStore])
  /\ enabledBy' = IF ~mcpEnabledFromStore
                  THEN enabledBy \cup {"chrome-action-icon"} ELSE enabledBy
  /\ surface' = [surface EXCEPT !.message = "mcp:toggle-sidebar",
                                !.response = [sent |-> TRUE, success |-> TRUE, error |-> FALSE],
                                !.sends = 1]
  /\ UNCHANGED <<avars, mvars, rvars, ovars, dropzone, script, architecture, startup, mounted>>

\* The message 'mcp:activate-sidebar'.
ActivateSidebarCommand ==
  /\ script = "evaluated"
  /\ PCommitState([PBegin EXCEPT !.mcpEnabledFromStore = TRUE])
  /\ enabledBy' = enabledBy \cup {"chrome-action-icon"}
  /\ surface' = [surface EXCEPT !.message = "mcp:activate-sidebar",
                                !.response = [sent |-> TRUE, success |-> TRUE, error |-> FALSE],
                                !.sends = 1]
  /\ UNCHANGED <<avars, mvars, rvars, ovars, dropzone, script, architecture, startup, mounted>>

NextStartup ==
  \/ RunInitializeNewArchitecture
  \/ RunEnsureMcpDisabled
  \/ RunEnsurePluginSystem
  \/ ApplicationInitSettles
  \/ ServicesSettle
  \/ MountPopover
  \/ StoreSync
  \/ UserClick
  \/ ToggleSidebarCommand
  \/ ActivateSidebarCommand
  \/ Settle

SpecStartup == InitStartup /\ [][NextStartup]_vars

\* ========================================================================
\* The runtime message listener of the content script
\* ========================================================================

\* The commands that act on the active plugin, if it has the method.
AdapterCommands == {"toggleSidebar", "showSidebarWithToolOutputs", "refreshSidebarContent"}

\* The commands that act on the function call renderer, if it is initialized.
RendererCommands == {"setFunctionCallRendering", "forceRenderFunctionCalls", "configureRenderer"}

\* The values of message.command the listener compares against.
NamedCommands == {"getStats", "callMcpTool"} \cup AdapterCommands \cup RendererCommands

\* The values of message.command of the model: the named ones and one other.
Commands == NamedCommands \cup {"unknownCommand"}

Succeeded == [sent |-> TRUE, success |-> TRUE, error |-> FALSE]

Failed == [sent |-> TRUE, success |-> FALSE, error |-> TRUE]

\* What sendResponse received when the listener returns: the branch of the
\* command; callMcpTool with toolName and args answers when the promise of
\* mcpClient.callTool settles; no branch, no sendResponse.
respond(command, available, validCall) ==
  IF command = "getStats" THEN Succeeded
  ELSE IF command \in AdapterCommands \cup RendererCommands
       THEN IF available THEN Succeeded ELSE Failed
  ELSE IF command = "callMcpTool"
       THEN IF validCall THEN NoResponse ELSE Failed
  ELSE NoResponse

\* chrome.runtime.onMessage delivers a message with a command.
OnMessage ==
  \E command \in Commands, available \in BOOLEAN, validCall \in BOOLEAN :
    /\ script = "evaluated"
    /\ command = "callMcpTool" /\ validCall => surface.calls < MaxPending
    /\ surface' = [message |-> command,
                   response |-> respond(command, available, validCall),
                   calls |-> IF command = "callMcpTool" /\ validCall
                             THEN surface.calls + 1 ELSE surface.calls,
                   sends |-> IF respond(command, available, validCall).sent THEN 1 ELSE 0]
    /\ UNCHANGED <<avars, pvars, mvars, rvars, svars, ovars, dropzone>>

\* The promise of mcpClient.callTool settles: then() or catch() answers.
CallToolSettles ==
  \E ok \in BOOLEAN :
    /\ surface.calls > 0
    /\ surface' = [message |-> "callMcpTool",
                   response |-> IF ok THEN Succeeded ELSE Failed,
                   calls |-> surface.calls - 1,
                   sends |-> 1]
    /\ UNCHANGED <<avars, pvars, mvars, rvars, svars, ovars, dropzone>>

NextSurface ==
  \/ RunInitializeNewArchitecture
  \/ RunEnsureMcpDisabled
  \/ RunEnsurePluginSystem
  \/ ApplicationInitSettles
  \/ ServicesSettle
  \/ OnMessage
  \/ CallToolSettles
  \/ ToggleSidebarCommand
  \/ ActivateSidebarCommand

SpecSurface == InitStartup /\ [][NextSurface]_vars

\* ========================================================================
\* The automation setters of the toggle state manager
\* ========================================================================

AutomationFlags == {"autoInsert", "autoSubmit", "autoExecute"}

\* setAutoInsert(enabled) and setAutoSubmit(enabled) both call
\* updatePreferences({ autoSubmit: enabled }) when the store has the method;
\* setAutoExecute(enabled) only logs. Each ends with updateUI(), whose
\* 'mcp:update-toggle-state' event has no listener.
setAuto(t, setter, enabled, updatePreferences) ==
  [t EXCEPT !.autoSubmit = IF setter # "autoExecute" /\ updatePreferences THEN enabled ELSE @,
            !.last = [setter |-> setter, enabled |-> enabled, seq |-> 1 - @.seq]]

CallSetAuto ==
  \E setter \in AutomationFlags, enabled \in BOOLEAN, updatePreferences \in BOOLEAN :
    /\ context
    /\ CommitAdapter(Begin("setAuto"))
    /\ toggle' = setAuto(toggle, setter, enabled, updatePreferences)
    /\ UNCHANGED <<pvars, mvars, rvars, cvars, svars, automation, bus>>

NextPreferences ==
  \/ CallInitialize
  \/ ResumeInitialize
  \/ CallSetAuto
  \/ CallSetMCPEnabled
  \/ AutoDetachFires

SpecPreferences == Init /\ [][NextPreferences]_vars

\* ========================================================================
\* The function call renderer of the content script
\* ========================================================================

\* Variant of initRendererWithRetry that retries with the same count.
initRendererWithRetryKeeps(r, retries, fails) ==
  IF r.rendererInitialized THEN r
  ELSE IF r.readyState \in {"complete", "interactive"}
       THEN IF ~fails
            THEN [r EXCEPT !.calls = @ + 1, !.rendererInitialized = TRUE, !.process = @ + 1]
            ELSE IF retries > 0
                 THEN [r EXCEPT !.calls = @ + 1, !.timers[retries] = @ + 1]
                 ELSE [r EXCEPT !.calls = @ + 1]
       ELSE [r EXCEPT !.timers[retries] = @ + 1]

\* initRendererWithRetry(retries, delay). fails: initializeRenderer() throws.
initRendererWithRetry(r, retries, fails) ==
  IF r.rendererInitialized THEN r
  ELSE IF r.readyState \in {"complete", "interactive"}
       THEN IF ~fails
            THEN [r EXCEPT !.calls = @ + 1, !.rendererInitialized = TRUE, !.process = @ + 1]
            ELSE IF retries > 0
                 THEN [r EXCEPT !.calls = @ + 1, !.timers[retries - 1] = @ + 1]
                 ELSE [r EXCEPT !.calls = @ + 1]
       ELSE [r EXCEPT !.timers[retries] = @ + 1]

\* The fallback block at the top level: while the document is loading it
\* waits for DOMContentLoaded, otherwise it starts the run at once.
RendererScriptRuns ==
  \E readyState \in ReadyStates, fails \in BOOLEAN :
    /\ ~renderer.started
    /\ LET r == [renderer EXCEPT !.started = TRUE, !.readyState = readyState]
       IN renderer' = IF readyState = "loading"
                      THEN [r EXCEPT !.listener = TRUE]
                      ELSE initRendererWithRetry(r, RendererRetries, fails)
    /\ UNCHANGED <<avars, pvars, mvars, svars, ovars, cvars, history>>

\* The document becomes interactive, which fires DOMContentLoaded, and then
\* complete.
DocumentAdvances ==
  \E fails \in BOOLEAN :
    /\ renderer.started
    /\ renderer.readyState # "complete"
    /\ renderer' =
         IF renderer.readyState = "loading"
         THEN LET r == [renderer EXCEPT !.readyState = "interactive"]
              IN IF r.listener /\ ~r.rendererInitialized
                 THEN initRendererWithRetry(r, RendererRetries, fails)
                 ELSE r
         ELSE [renderer EXCEPT !.readyState = "complete"]
    /\ UNCHANGED <<avars, pvars, mvars, svars, ovars, cvars, history>>

\* A timeout that initRendererWithRetry set fires.
RendererTimerFires ==
  \E retries \in 0..RendererRetries, fails \in BOOLEAN :
    /\ renderer.timers[retries] > 0
    /\ renderer.calls < MaxRendererCalls
    /\ renderer' = initRendererWithRetry([renderer EXCEPT !.timers[retries] = @ - 1],
                                         retries, fails)
    /\ UNCHANGED <<avars, pvars, mvars, svars, ovars, cvars, history>>

\* The 500 ms timeout after a successful initialization fires.
ProcessTimerFires ==
  /\ renderer.process > 0
  /\ renderer' = [renderer EXCEPT !.process = @ - 1]
  /\ UNCHANGED <<avars, pvars, mvars, svars, ovars, cvars, history>>

\* Variant of createHistoryPanel that leaves the parent block's panels.
createHistoryPanelKeepsParent(h, blockDiv) ==
  IF blockDiv = "function-buttons"
  THEN IF h.nested
       THEN [h EXCEPT !.buttons = 0, !.block = @ + 1, !.last = blockDiv]
       ELSE [h EXCEPT !.buttons = 1, !.last = blockDiv]
  ELSE [h EXCEPT !.buttons = 0, !.block = 1, !.last = blockDiv]

\* createHistoryPanel(blockDiv, callId, contentSignature): the panels under
\* blockDiv are removed, for a container also those of its parent block, and
\* one new panel is appended to the parent block or else to blockDiv.
createHistoryPanel(h, blockDiv) ==
  IF blockDiv = "function-buttons"
  THEN IF h.nested
       THEN [h EXCEPT !.buttons = 0, !.block = 0 + 1, !.last = blockDiv]
       ELSE [h EXCEPT !.buttons = 0 + 1, !.last = blockDiv]
  ELSE [h EXCEPT !.buttons = 0, !.block = 0 + 1, !.last = blockDiv]

\* checkAndDisplayFunctionHistory: a panel is made only when a matching
\* execution is stored.
checkAndDisplayFunctionHistory(h, blockDiv, matching) ==
  IF matching THEN createHistoryPanel(h, blockDiv) ELSE h

\* Number of history panels found under a function block.
panelsIn(h) == h.block + h.buttons

\* The page renders (or re-renders) a function block; a container may also
\* be rendered on its own, without a function block around it.
RenderBlock ==
  \E b \in Blocks, nested \in BOOLEAN :
    /\ history' = [history EXCEPT ![b] =
                     [NoPanels EXCEPT !.rendered = TRUE, !.nested = nested]]
    /\ UNCHANGED <<avars, pvars, mvars, svars, ovars, cvars, renderer>>

CheckAndDisplayFunctionHistory ==
  \E b \in Blocks, blockDiv \in Targets, matching \in BOOLEAN :
    /\ history[b].rendered
    /\ blockDiv = "function-block" => history[b].nested
    /\ history' = [history EXCEPT ![b] =
                     checkAndDisplayFunctionHistory(@, blockDiv, matching)]
    /\ UNCHANGED <<avars, pvars, mvars, svars, ovars, cvars, renderer>>

NextRenderer ==
  \/ RendererScriptRuns
  \/ DocumentAdvances
  \/ RendererTimerFires
  \/ ProcessTimerFires
  \/ RenderBlock
  \/ CheckAndDisplayFunctionHistory

SpecRenderer == Init /\ [][NextRenderer]_vars

\* ========================================================================
\* Claims
\* ========================================================================

ActivePlugins == {p \in Plugins : currentStatus[p] = "active"}

\* C1: in every reachable state at most one adapter instance is ACTIVE,
\* whatever activateFor signals and activate, deactivate and cleanup calls
\* were made.
C1_AtMostOneActive == Cardinality(ActivePlugins) <= 1

\* The second adapter was activated while the Gemini adapter was ACTIVE.
C1_Witness ==
  /\ call.op = "other.activate"
  /\ currentStatus[Other] = "active"
  /\ currentStatus[Gemini] = "inactive"
  /\ events = <<"adapter:deactivated">>

\* C2: a step that makes adapter B ACTIVE while adapter A is ACTIVE leaves A
\* INACTIVE, and the registry's active instance is then the only ACTIVE one.
C2_HandoffDeactivatesPrevious ==
  [][\A a, b \in Plugins :
       (a # b /\ currentStatus[a] = "active"
              /\ currentStatus[b] # "active" /\ currentStatus'[b] = "active")
       => /\ currentStatus'[a] = "inactive"
          /\ activePlugin' = b
          /\ ActivePlugins' = {b}]_vars

\* activateFor handed over from the Gemini adapter to the second adapter.
C2_Witness ==
  /\ call.op = "activateFor"
  /\ events = <<"adapter:deactivated">>
  /\ currentStatus[Gemini] = "inactive"
  /\ currentStatus[Other] = "active"
  /\ activePlugin = Other

\* C4: the host document holds at most one element with the identifier
\* 'mcp-popover-container', under every interleaving of observer re-checks,
\* timer re-checks, retry timeouts and page-change timeouts.
C4_AtMostOnePopover == popovers <= 1

\* A timer callback ran with the popover mounted while another page-ready
\* poll and the periodic check were still pending.
C4_Witness ==
  /\ call.op = "timer"
  /\ popovers = 1
  /\ readyPolls >= 1
  /\ popoverTimers >= 1
  /\ observers >= 1

\* A step in which attachFile(file) was called with the content of the
\* previous attachFile(file) call, less than the cooldown after it.
RepeatedAttach ==
  /\ pcall'.attached
  /\ lastAttach.set
  /\ lastAttach'.context = lastAttach.context
  /\ lastAttach'.timestamp - lastAttach.timestamp < Cooldown

C11_RunStopsAtBound ==
  \A m \in RetryBounds :
    /\ failedLocates[m] <= m
    /\ failedLocates[m] = m => (failuresEmitted[m] = 1 /\ PendingOfRun(World, m) = 0)

Active == currentStatus[Gemini] = "active"

\* C12: while the adapter is ACTIVE and an insertion point exists, a removal
\* of the control surface by the host is noticed in the observer callback of
\* that very change (a new injection run is started), and a missing control
\* surface is eventually present again unless the adapter leaves ACTIVE or
\* the insertion point goes away; never more than one element is mounted.
C12_RemovedSurfaceIsRemounted ==
  /\ [][(Active /\ call'.op = "host-removal") => readyPolls' > readyPolls]_vars
  /\ (Active /\ anchor /\ popovers = 0) ~> (popovers = 1 \/ ~Active \/ ~anchor)
  /\ [](popovers <= 1)

\* The host removed the control surface of an ACTIVE adapter while an
\* insertion point existed, and the observer started a new injection run.
C12_Witness ==
  /\ call.op = "host-removal"
  /\ Active /\ anchor /\ popovers = 0
  /\ observers = 1 /\ readyPolls = 1 /\ popoverTimers = 1

\* The last step was an injection run giving up at its retry bound.
Exhausted == \E i \in DOMAIN events : events[i] = "injection-failed"

\* C13: when an injection run has exhausted its retry bound and afterwards the
\* adapter stays ACTIVE with an insertion point, the control surface is
\* eventually mounted; the periodic re-check, once started by activate(), is
\* never stopped while the instance is ACTIVE or INACTIVE (only cleanup() clears it).
C13_ExhaustionIsRecoverable ==
  /\ []((Active /\ Exhausted) => (<>[](Active /\ anchor) => <>(popovers = 1)))
  /\ [](currentStatus[Gemini] \in {"active", "inactive"}
          => (popoverCheckInterval /\ popoverTimers >= 1))

\* An injection run of the ACTIVE adapter has just given up at its bound, the
\* periodic re-check still being set.
C13_Witness ==
  /\ call.op = "timer"
  /\ Exhausted
  /\ Active /\ ~anchor /\ popovers = 0
  /\ popoverTimers = 1

LiveTimers ==
  urlTimers + popoverTimers + readyPolls + SumOver(retryTimeouts, RetryKeys)
    + pageSetupTimers + pageRestoreTimers

\* C5: when deactivate() or cleanup() has returned, no interval, pending
\* timeout or connected observer of the instance is left to fire.
C5_TeardownCancelsAll ==
  (call.op \in {"deactivate", "cleanup"} /\ ~call.threw)
    => (LiveTimers = 0 /\ observers = 0)

\* C6: between deactivate() and the next activate() the document holds no
\* element with the control-surface identifier.
C6_InactiveHasNoPopover ==
  currentStatus[Gemini] = "inactive" => popovers = 0

\* C7: DISABLED is terminal: an initialize(), activate() or deactivate() call
\* on a DISABLED instance changes neither its state nor creates timers,
\* observers or the control surface.
C7_DisabledIsTerminal ==
  [][(currentStatus[Gemini] = "disabled"
        /\ call'.op \in {"initialize", "activate", "deactivate"})
     => /\ currentStatus'[Gemini] = "disabled"
        /\ urlTimers' <= urlTimers
        /\ popoverTimers' <= popoverTimers
        /\ observers' <= observers
        /\ readyPolls' <= readyPolls
        /\ popovers' <= popovers]_vars

\* C8: the first initialize() ends in IDLE; an initialize() call on the
\* instance as the first one left it is not executed: it changes neither the
\* state nor any field of the instance, and sets up no further URL tracking
\* and no further event-bus listener.
C8_SecondInitializeIsNoOp ==
  [][/\ (call'.op = "initialize-resume" /\ currentStatus[Gemini] = "initializing")
          => currentStatus'[Gemini] = "idle"
     /\ (call'.op = "initialize" /\ currentStatus[Gemini] = "idle"
           /\ urlCheckInterval /\ storeEventListenersSetup)
          => /\ currentStatus' = currentStatus
             /\ urlTimers' = urlTimers
             /\ listeners' = listeners
             /\ lastUrl' = lastUrl]_vars

\* C9: activate() on an instance that was never initialized does not throw,
\* leaves it UNINITIALIZED and creates no observer, timer or control surface.
C9_ActivateUninitializedIsNoOp ==
  (call.op = "activate" /\ currentStatus[Gemini] = "uninitialized")
    => /\ ~call.threw
       /\ observers = 0 /\ LiveTimers = 0 /\ popovers = 0

\* C10: deactivate() called in a state other than ACTIVE leaves the lifecycle
\* state as it is and emits no 'adapter:deactivated' event.
C10_DeactivateOnlyFromActive ==
  [][(call'.op = "deactivate" /\ currentStatus[Gemini] # "active")
     => /\ currentStatus'[Gemini] = currentStatus[Gemini]
        /\ events' = <<>>]_vars


\* C14: on a fresh page load neither the toggle state manager nor the
\* mounted control surface reports mcpEnabled = TRUE unless the user or a
\* command has enabled it during this page load.
C14_StartsDisabled ==
  (mounted /\ (getState.mcpEnabled \/ stateMcpEnabled)) => enabledBy # {}

\* C15: the call that forces mcpEnabled to FALSE precedes every call that
\* starts the application initialisation or the service initialisation.
C15_ForcedBeforeInitialization ==
  \A i \in DOMAIN startup :
    startup[i] \in {"applicationInit", "initializeAllServices"}
      => \E j \in 1..(i - 1) : startup[j] = "setMCPEnabled"


CapabilityOperations == {"insertText", "submitForm", "attachFile", "detachFile"}

\* C19: a call of insertText, submitForm, attachFile or detachFile does not
\* throw, and the event it emits agrees with the boolean it returns: a
\* completed event when it returns TRUE, a failed event when it returns FALSE.
C19_ResultAgreesWithEvent ==
  call.op \in CapabilityOperations
    => /\ ~call.threw
       /\ events = IF call.returned THEN <<"tool:execution-completed">>
                   ELSE <<"tool:execution-failed">>


\* C20: the control surface runs attachFile or detachFile only on a plugin
\* whose declared capabilities include 'file-attachment'.
C20_FileOperationsNeedCapability ==
  (pcall.attached \/ pcall.detached) => pcall.fileAttachment


Invoked(op) == \E i \in DOMAIN automation.invoked : automation.invoked[i] = op

\* C16: a completed execution that arrives while mcpEnabled is FALSE is
\* ignored: no operation is invoked on the adapter, nothing is emitted and
\* the recorded fingerprint stays as it was.
C16_DisabledIgnoresExecution ==
  [][(call'.op = "execution-completed" /\ ~mcpEnabledFromStore)
       => /\ automation'.invoked = <<>>
          /\ automation'.fingerprint = automation.fingerprint
          /\ events' = <<>>]_vars

C16_Witness ==
  /\ call.op = "execution-completed"
  /\ ~mcpEnabledFromStore
  /\ automation.autoInsert /\ automation.autoSubmit
  /\ automation.declared = capabilities
  /\ automation.invoked = <<>>
  /\ ~automation.fingerprint.set

\* C17: the automation of a completed execution invokes insertText only
\* with autoInsert on and 'text-insertion' declared by the active adapter,
\* and submitForm only with autoSubmit on and 'form-submission' declared.
C17_StepsAreGated ==
  call.op = "execution-completed"
    => /\ Invoked("insertText")
            => (automation.autoInsert /\ "text-insertion" \in automation.declared)
       /\ Invoked("submitForm")
            => (automation.autoSubmit /\ "form-submission" \in automation.declared)

C17_Witness ==
  /\ call.op = "execution-completed"
  /\ automation.autoInsert /\ automation.autoSubmit
  /\ automation.declared = {"text-insertion"}
  /\ automation.invoked = <<"insertText">>

\* C18: when both automated steps of one completed execution run, insertText
\* is invoked first and submitForm second, never the reverse.
C18_InsertThenSubmit ==
  call.op = "execution-completed"
    => \A i, j \in DOMAIN automation.invoked :
         (automation.invoked[i] = "insertText" /\ automation.invoked[j] = "submitForm")
           => i < j

C18_Witness ==
  /\ call.op = "execution-completed"
  /\ automation.invoked = <<"insertText", "submitForm">>
  /\ events = <<"tool:execution-completed", "tool:execution-completed">>


\* C21: emit(E, p) runs the handlers subscribed to E in subscription order;
\* a handler that throws does not keep the later handlers from receiving the
\* event, and its exception does not leave emit().
C21_DeliveryInSubscriptionOrder ==
  bus.op = "emit"
    => /\ bus.delivered = [i \in DOMAIN bus.handlers |-> bus.handlers[i].id]
       /\ ~bus.escaped

C21_Witness ==
  /\ bus.op = "emit"
  /\ Len(bus.handlers) = 2
  /\ bus.handlers[1].throws
  /\ bus.delivered = <<bus.handlers[1].id, bus.handlers[2].id>>


ClickDisable == [kind |-> "click-disable", tools |-> NoTools]

\* C22: a step that takes mcpEnabled from TRUE to FALSE clears the per-tool
\* enablement and sets a detach going (the auto-detach timeout of the toggle
\* state manager, or the disabling click handler that goes on to detachFile);
\* a step that takes mcpEnabled from FALSE to TRUE sets no detach going.
C22_DisablingDetachesAndClears ==
  /\ [][(mcpEnabledFromStore /\ ~mcpEnabledFromStore')
          => /\ ~toggle'.toolsEnabled
             /\ \/ toggle'.detachTimers > toggle.detachTimers
                \/ continuations'[ClickDisable] > continuations[ClickDisable]]_vars
  /\ [][(~mcpEnabledFromStore /\ mcpEnabledFromStore')
          => /\ toggle'.detachTimers <= toggle.detachTimers
             /\ continuations'[ClickDisable] <= continuations[ClickDisable]]_vars


\* C23: after setAutoInsert(e), setAutoSubmit(e) or setAutoExecute(e),
\* getState() reports that flag equal to e and the two other automation
\* flags as they were before the call.
C23_SetterUpdatesItsFlagOnly ==
  [][toggle'.last # toggle.last
       => /\ getState'[toggle'.last.setter] = toggle'.last.enabled
          /\ \A g \in AutomationFlags \ {toggle'.last.setter} : getState'[g] = getState[g]]_vars


\* C24: every named command is answered with an object whose success field
\* is a boolean (callMcpTool once its call settles), and a command the
\* listener does not know is answered with { success: false, error }.
C24_EveryCommandAnswered ==
  /\ surface.message \in NamedCommands
       => surface.response.sent \/ (surface.message = "callMcpTool" /\ surface.calls > 0)
  /\ surface.message \in Commands \ NamedCommands => surface.response = Failed

\* The named commands alone: each one is answered.
C24_NamedCommandsAnswered ==
  surface.message \in NamedCommands
    => surface.response.sent \/ (surface.message = "callMcpTool" /\ surface.calls > 0)


\* C25: when the ACTIVE adapter notices a navigation to an unsupported page
\* of the same host, it deactivates: afterwards it is not ACTIVE, none of
\* its interval timers and observers is left, and getActivePlugin() is null.
C25_UnsupportedPageDeactivates ==
  [][(/\ currentStatus[Gemini] = "active"
      /\ call'.op = "timer"
      /\ lastUrl' # lastUrl
      /\ location' \notin SupportedUrls)
       => /\ currentStatus'[Gemini] # "active"
          /\ urlTimers' = 0 /\ popoverTimers' = 0 /\ observers' = 0
          /\ activePlugin' = NoPlugin]_vars


C27_OverlappingInitializeRunsOnce ==
  initInFlight /\ currentStatus[Gemini] = "initializing"
    => LET w == Begin("initialize")
           second == initialize(w)
           r == initializeResume(second)
       IN /\ second = w
          /\ r = initializeResume(w)
          /\ ~r.initInFlight
          /\ r.currentStatus[Gemini] = "idle"
          /\ r.urlTimers = 1

C27_Witness ==
  /\ initInFlight
  /\ currentStatus[Gemini] = "initializing"
  /\ call.op = "initialize"
  /\ initialize(World) = World
  /\ urlTimers = 0


\* C28: when an element with the identifier of the control surface exists,
\* an injection (any attempt of a run, and the mount itself) leaves the
\* document and everything else as it is and ends normally: no insertion,
\* no retry scheduled, no failure reported, nothing thrown.
C28_InjectionOnMountedIsNoOp ==
  isMCPPopoverInjected(World)
    => LET w == Begin("timer")
       IN /\ injectMCPPopover(w) = w
          /\ \A k \in RetryKeys : attemptInjection(w, k[1], k[2]) = w
          /\ popoverCheck(w) = w
          /\ ~w.call.threw

C28_Witness ==
  /\ popovers = 1
  /\ popoverTimers > 0
  /\ call.op = "timer"
  /\ \E k \in RetryKeys : retryTimeouts[k] > 0


\* C29: a run that a trigger of the heal phase starts, the MutationObserver
\* or the 5 s interval, gives up locating before it has made as many failed
\* attempts as the bound of the initial injection allows.
C29_HealRunsHaveSmallerBound ==
  /\ observerRun.failed < DefaultMaxRetries
  /\ failedLocates[HealMaxRetries] < DefaultMaxRetries


C31_ExactlyOneResponse ==
  surface.message # "none"
    => IF surface.message = "callMcpTool" /\ ~surface.response.sent
       THEN surface.sends = 0 /\ surface.calls > 0
       ELSE surface.sends = 1


\* Every pending callback of the injection belongs to one retry sequence,
\* and a sequence has one pending callback at a time: its page-ready poll or
\* its next numbered attempt.
SequencesInProgress == readyPolls + SumOver(retryTimeouts, RetryKeys)

\* C32: at most one injection retry sequence of the instance is in progress
\* at any time, however often the observer, the 5 s interval and the
\* page-change callbacks fire while the control surface is missing.
C32_OneSequenceInProgress == SequencesInProgress <= 1


\* C33: whatever lifecycle calls and page changes came before, the instance
\* holds at most one 5 s presence-check interval, at most one URL-poll
\* interval and at most one connected MutationObserver.
C33_AtMostOneOfEachWatcher ==
  /\ popoverTimers <= 1
  /\ urlTimers <= 1
  /\ observers <= 1


\* initialize() ran its body again on the deactivated instance, whose URL
\* interval and presence-check interval were still set.
C33_Witness ==
  /\ call.op = "initialize"
  /\ currentStatus[Gemini] = "inactive"
  /\ storeEventListenersSetup
  /\ urlTimers = 1
  /\ popoverTimers = 1


\* C34: whatever lifecycle calls came before, the instance has at most one
\* handler subscribed to 'tool:execution-completed' on the event bus.
C34_AtMostOneCompletionHandler == listeners <= 1


Emitted(e) == \E i \in DOMAIN events : events[i] = e

\* C35: 'adapter:activated' and 'adapter:deactivated' alternate, starting
\* with 'adapter:activated': a call that emits 'adapter:deactivated' takes
\* the instance from ACTIVE to INACTIVE, and a call that emits
\* 'adapter:activated' takes it from another state to ACTIVE.
C35_LifecycleEventsFollowState ==
  [][/\ Emitted("adapter:deactivated")'
          => (currentStatus[Gemini] = "active" /\ currentStatus'[Gemini] = "inactive")
     /\ Emitted("adapter:activated")'
          => (currentStatus[Gemini] # "active" /\ currentStatus'[Gemini] = "active")]_vars


\* C36: attachFile is idempotent per file name: with a card of the file in
\* the document it returns true and posts no drop message, so that repeated
\* calls for the file leave at most one attachment of it.
C36_AtMostOneAttachment ==
  /\ [](dropzone.cards <= 1)
  /\ [][(call'.op = "attachFile" /\ cardPresent(dropzone) /\ ~call'.threw)
          => (call'.returned /\ dropzone' = dropzone)]_vars

\* The part of C36 that is about a call with the card present.
C36_PresentCardMeansNoDrop ==
  [][(call'.op = "attachFile" /\ cardPresent(dropzone) /\ ~call'.threw)
       => (call'.returned /\ dropzone' = dropzone)]_vars


\* C37: with the document ready, one run of initRendererWithRetry calls the
\* initializer at most retries + 1 times, 4 by default, and when the last
\* of these calls has failed no further attempt is scheduled.
C37_RendererRetriesTerminate ==
  /\ renderer.calls <= RendererRetries + 1
  /\ (renderer.calls = RendererRetries + 1 /\ ~renderer.rendererInitialized)
       => \A k \in 0..RendererRetries : renderer.timers[k] = 0

C37_Witness ==
  /\ renderer.calls = RendererRetries + 1
  /\ ~renderer.rendererInitialized
  /\ renderer.readyState = "complete"
  /\ \A k \in 0..RendererRetries : renderer.timers[k] = 0


\* C38: after any sequence of createHistoryPanel calls for a function block,
\* made with the block or with its 'function-buttons' container, the block
\* holds at most one history panel, and exactly one after the latest call.
C38_OneHistoryPanelPerBlock ==
  \A b \in Blocks :
    /\ panelsIn(history[b]) <= 1
    /\ history[b].last # "none" => panelsIn(history[b]) = 1

C38_Witness ==
  \E b \in Blocks :
    /\ history[b].nested
    /\ history[b].last = "function-buttons"
    /\ history[b].block = 1

====
